---------------------------- MODULE Spec2Model ----------------------------
(***************************************************************************)
(* A model of the event-booking core: the Event and Booking mongoose       *)
(* schemas (database/event.model.ts, database/booking.model.ts) and the    *)
(* cached connection helper connectToDatabase.                             *)
(*                                                                         *)
(* Strings are sequences of one-character strings, so that slugify,        *)
(* normalizeTime and normalizeDate are computed character by character,    *)
(* the way the regular expressions of the source do.                       *)
(***************************************************************************)
EXTENDS Integers, Sequences, FiniteSets, TLC

VARIABLES
    slugInput,      \* SpecSlug: the argument of slugify
    slugResult,     \* SpecSlug: what slugify returned (NotRun before the call)
    timeParts,      \* SpecTime: the pieces the argument of normalizeTime is made of
    timeResult,     \* SpecTime: what normalizeTime returned or threw
    mongooseCache,  \* SpecConn: global.mongooseCache
    promises,       \* SpecConn: the state of every promise connect has produced
    connectCalls,   \* SpecConn: how many times mongoose.connect was invoked
    callers,        \* SpecConn: each connectToDatabase call's position and result
    events,         \* Spec: the Event collection of the store
    bookings,       \* Spec: the Booking collection of the store
    eventDocs,      \* Spec: the in-memory Event documents
    bookingDocs,    \* Spec: the in-memory Booking documents
    deleted         \* Spec: ids of Events removed from the store (history)

vars == <<slugInput, slugResult, timeParts, timeResult, mongooseCache, promises,
          connectCalls, callers, events, bookings, eventDocs, bookingDocs,
          deleted>>

slugVars == <<slugInput, slugResult>>
timeVars == <<timeParts, timeResult>>
connVars == <<mongooseCache, promises, connectCalls, callers>>
storeVars == <<events, bookings, eventDocs, bookingDocs, deleted>>

NotRun == [ok |-> FALSE, err |-> "not run"]
Ok(v) == [ok |-> TRUE, val |-> v]
Throw(msg) == [ok |-> FALSE, err |-> msg]

(***************************************************************************)
(* Characters                                                              *)
(***************************************************************************)
UpperLetters == <<"A","B","C","D","E","F","G","H","I","J","K","L","M",
                  "N","O","P","Q","R","S","T","U","V","W","X","Y","Z">>
LowerLetters == <<"a","b","c","d","e","f","g","h","i","j","k","l","m",
                  "n","o","p","q","r","s","t","u","v","w","x","y","z">>
Digits == <<"0","1","2","3","4","5","6","7","8","9">>

Range(s) == {s[i] : i \in DOMAIN s}
IsSpace(c) == c \in {" ", "\t"}
IsDigit(c) == c \in Range(Digits)
IsLower(c) == c \in Range(LowerLetters)
DigitVal(c) == (CHOOSE i \in DOMAIN Digits : Digits[i] = c) - 1
SetMin(S) == CHOOSE x \in S : \A y \in S : x <= y
SetMax(S) == CHOOSE x \in S : \A y \in S : x >= y

\* String.prototype.toLowerCase, one character
LowerChar(c) ==
    IF \E i \in DOMAIN UpperLetters : UpperLetters[i] = c
      THEN LowerLetters[CHOOSE i \in DOMAIN UpperLetters : UpperLetters[i] = c]
      ELSE c

toLowerCase(s) == [i \in 1..Len(s) |-> LowerChar(s[i])]

\* String.prototype.trim
trim(s) ==
    LET keep == {i \in 1..Len(s) : ~IsSpace(s[i])}
    IN  IF keep = {} THEN <<>> ELSE SubSeq(s, SetMin(keep), SetMax(keep))

\* String.prototype.padStart(2, "0")
padStart2(s) == IF Len(s) >= 2 THEN s ELSE IF Len(s) = 1 THEN <<"0">> \o s ELSE <<"0","0">>

\* String(n) for 0 <= n <= 99
NumToStr(n) == IF n < 10 THEN <<Digits[n + 1]>> ELSE <<Digits[(n \div 10) + 1], Digits[(n % 10) + 1]>>

\* parseInt(s, 10) for a string of one or two digits
parseInt(s) == IF Len(s) = 1 THEN DigitVal(s[1]) ELSE 10 * DigitVal(s[1]) + DigitVal(s[2])

(***************************************************************************)
(* slugify (event.model.ts)                                                *)
(***************************************************************************)
\* .replace(/[^a-z0-9\s-]/g, "")
StripInvalid(s) ==
    SelectSeq(s, LAMBDA c : IsLower(c) \/ IsDigit(c) \/ IsSpace(c) \/ c = "-")

\* .replace(/\s+/g, "-"): every maximal run of whitespace becomes one hyphen
RECURSIVE SpacesToHyphen(_)
SpacesToHyphen(s) ==
    IF s = <<>> THEN <<>>
    ELSE IF IsSpace(Head(s))
      THEN IF Len(s) > 1 /\ IsSpace(s[2])
             THEN SpacesToHyphen(Tail(s))
             ELSE <<"-">> \o SpacesToHyphen(Tail(s))
      ELSE <<Head(s)>> \o SpacesToHyphen(Tail(s))

\* .replace(/-+/g, "-"): every maximal run of hyphens becomes one hyphen
RECURSIVE CollapseHyphens(_)
CollapseHyphens(s) ==
    IF s = <<>> THEN <<>>
    ELSE IF Head(s) = "-" /\ Len(s) > 1 /\ s[2] = "-"
      THEN CollapseHyphens(Tail(s))
      ELSE <<Head(s)>> \o CollapseHyphens(Tail(s))

\* a slugify that forgets the last replace (the mutant of C7)
slugifyNoCollapse(input) == SpacesToHyphen(StripInvalid(trim(toLowerCase(input))))

slugify(input) == CollapseHyphens(SpacesToHyphen(StripInvalid(trim(toLowerCase(input)))))

(***************************************************************************)
(* normalizeTime (event.model.ts)                                          *)
(***************************************************************************)
NoMatch == [matched |-> FALSE]

\* index of the first ":" of s, 0 when there is none
ColonAt(s) ==
    LET at == {i \in 1..Len(s) : s[i] = ":"}
    IN  IF at = {} THEN 0 ELSE SetMin(at)

\* [0-5]\d
IsMinute(m) == Len(m) = 2 /\ m[1] \in {"0","1","2","3","4","5"} /\ IsDigit(m[2])

\* ([01]?\d|2[0-3])
IsHour24(h) ==
    \/ Len(h) = 1 /\ IsDigit(h[1])
    \/ Len(h) = 2 /\ h[1] \in {"0","1"} /\ IsDigit(h[2])
    \/ Len(h) = 2 /\ h[1] = "2" /\ h[2] \in {"0","1","2","3"}

\* /^([01]?\d|2[0-3]):([0-5]\d)$/.exec(s)
ExecHhmm24(s) ==
    LET c == ColonAt(s)
    IN  IF c = 0 THEN NoMatch
        ELSE LET h == SubSeq(s, 1, c - 1)
                 m == SubSeq(s, c + 1, Len(s))
             IN  IF IsHour24(h) /\ IsMinute(m)
                   THEN [matched |-> TRUE, g1 |-> h, g2 |-> m]
                   ELSE NoMatch

\* (1[0-2]|0?[1-9])
IsHour12(h) ==
    \/ Len(h) = 2 /\ h[1] = "1" /\ h[2] \in {"0","1","2"}
    \/ Len(h) = 1 /\ IsDigit(h[1]) /\ h[1] # "0"
    \/ Len(h) = 2 /\ h[1] = "0" /\ IsDigit(h[2]) /\ h[2] # "0"

\* /^(1[0-2]|0?[1-9]):([0-5]\d)\s*(am|pm)$/i.exec(s)
ExecAmPm(s) ==
    LET c == ColonAt(s)
    IN  IF c = 0 \/ Len(s) < c + 4 THEN NoMatch
        ELSE LET h == SubSeq(s, 1, c - 1)
                 m == SubSeq(s, c + 1, c + 2)
                 gap == SubSeq(s, c + 3, Len(s) - 2)
                 p == toLowerCase(SubSeq(s, Len(s) - 1, Len(s)))
             IN  IF /\ IsHour12(h)
                    /\ IsMinute(m)
                    /\ \A i \in DOMAIN gap : IsSpace(gap[i])
                    /\ p \in {<<"a","m">>, <<"p","m">>}
                   THEN [matched |-> TRUE, g1 |-> h, g2 |-> m, g3 |-> p]
                   ELSE NoMatch

(* new Date(`1970-01-01T${s}`) on V8 (the engine Next.js and mongoose run  *)
(* on): once the "T" is read the rest must be an ECMAScript time           *)
(* HH:mm[:ss], with HH 00..24 and 24 only as 24:00[:00]; anything else     *)
(* (one-digit hours, text after the time) gives an Invalid Date. The time  *)
(* is local time, and getHours/getMinutes read it back as local time.      *)
IsTwoDigits(x) == Len(x) = 2 /\ IsDigit(x[1]) /\ IsDigit(x[2])

ParseIsoTime(s) ==
    LET hh == SubSeq(s, 1, 2)
        mm == SubSeq(s, 4, 5)
        ss == SubSeq(s, 7, 8)
        shape == /\ Len(s) \in {5, 8}
                 /\ IsTwoDigits(hh) /\ s[3] = ":" /\ IsTwoDigits(mm)
                 /\ Len(s) = 8 => (s[6] = ":" /\ IsTwoDigits(ss))
    IN  IF ~shape THEN [valid |-> FALSE]
        ELSE LET h == parseInt(hh)
                 m == parseInt(mm)
                 sec == IF Len(s) = 8 THEN parseInt(ss) ELSE 0
             IN  IF h <= 24 /\ m <= 59 /\ sec <= 59 /\ (h = 24 => (m = 0 /\ sec = 0))
                   THEN [valid |-> TRUE, hours |-> h % 24, minutes |-> m]
                   ELSE [valid |-> FALSE]

\* the 12-hour conversion without the two special cases for 12 (the mutant of C6)
To24Naive(hh, period) == IF period = <<"p","m">> THEN hh + 12 ELSE hh

\* if (period === "pm" && hh !== 12) hh += 12; if (period === "am" && hh === 12) hh = 0;
To24(hh, period) ==
    LET afterPm == IF period = <<"p","m">> /\ hh # 12 THEN hh + 12 ELSE hh
    IN  IF period = <<"a","m">> /\ afterPm = 12 THEN 0 ELSE afterPm

normalizeTime(input) ==
    LET trimmed == trim(input)
        hhmm24 == ExecHhmm24(trimmed)
        ampm == ExecAmPm(trimmed)
        parsed == ParseIsoTime(trimmed)
    IN  IF hhmm24.matched THEN Ok(padStart2(hhmm24.g1) \o <<":">> \o hhmm24.g2)
        ELSE IF ampm.matched
          THEN Ok(padStart2(NumToStr(To24(parseInt(ampm.g1), ampm.g3))) \o <<":">> \o ampm.g2)
        ELSE IF parsed.valid
          THEN Ok(padStart2(NumToStr(parsed.hours)) \o <<":">> \o padStart2(NumToStr(parsed.minutes)))
        ELSE Throw("Invalid time format")


(***************************************************************************)
(* Values the variables of the other specifications rest at                *)
(***************************************************************************)
SlugIdle == slugInput = <<>> /\ slugResult = NotRun
TimeIdle == timeParts = <<>> /\ timeResult = NotRun

(***************************************************************************)
(* SpecSlug: slugify applied to every title of a bounded set               *)
(***************************************************************************)
MaxTitleLen == 4
TitleAlphabet == {"a", "B", "7", " ", "-", "!"}
HelloWorldTitle == <<"H","e","l","l","o"," "," "," ","W","o","r","l","d","!","!">>
MyTalkTitle == <<"M","y"," ","T","a","l","k","!">>
SlugInputs ==
    UNION {[1..k -> TitleAlphabet] : k \in 0..MaxTitleLen}
      \cup {HelloWorldTitle, MyTalkTitle}

SlugifyCall ==
    /\ slugResult = NotRun
    /\ slugResult' = Ok(slugify(slugInput))
    /\ UNCHANGED <<slugInput, timeVars, connVars, storeVars>>

(***************************************************************************)
(* SpecTime: normalizeTime applied to every time string of a bounded set.  *)
(* A time string is lead hour ":" min sec sep period trail.                *)
(***************************************************************************)
MaxHour == 25
HourStrings ==
    {NumToStr(n) : n \in 0..MaxHour} \cup {<<"0">> \o NumToStr(n) : n \in 0..9}
MinuteStrings == {<<"0","0">>, <<"0","7">>, <<"3","0">>, <<"5","9">>, <<"6","0">>, <<"5">>}
SecondStrings == {<<>>, <<":","0","0">>}
SepStrings == {<<>>, <<" ">>, <<" "," ">>}
PeriodStrings == {<<>>, <<"A","M">>, <<"a","m">>, <<"P","M">>, <<"p","m">>, <<"P","m">>, <<"X","M">>}
PadStrings == {<<>>, <<" ">>}
TimeInputs ==
    [pad : PadStrings, hour : HourStrings, min : MinuteStrings, sec : SecondStrings,
     sep : SepStrings, period : PeriodStrings]

RawTime(p) == p.pad \o p.hour \o <<":">> \o p.min \o p.sec \o p.sep \o p.period \o p.pad

NormalizeTimeCall ==
    /\ timeResult = NotRun
    /\ timeResult' = normalizeTime(RawTime(timeParts))
    /\ UNCHANGED <<timeParts, slugVars, connVars, storeVars>>

(***************************************************************************)
(* SpecConn: connectToDatabase (the cached mongoose connection).           *)
(* A call runs without interruption up to its await; the promise settles   *)
(* later, and each awaiting call resumes after that.                       *)
(***************************************************************************)
MaxCalls == 2
Callers == {"c1", "c2", "c3"}
NoConn == 0       \* conn: null
NoPromise == 0    \* promise: null

\* global.mongooseCache before the first call: undefined
Undefined == [defined |-> FALSE, conn |-> NoConn, promise |-> NoPromise]

IdleCaller == [pc |-> "idle", promise |-> NoPromise, conn |-> NoConn, calls |-> 0,
               via |-> "none", late |-> FALSE]

ConnIdle ==
    /\ mongooseCache = Undefined
    /\ promises = <<>>
    /\ connectCalls = 0
    /\ callers = [c \in Callers |-> IdleCaller]

\* mongooseInstance.connection of the instance the k-th connect resolved to
Connection(k) == k

\* a call that never reuses the stored promise (the mutant of C4)
NeedsConnectAlways(cache) == TRUE

\* if (!global.mongooseCache.promise)
NeedsConnect(cache) == cache.promise = NoPromise

\* a rejection handler that clears the stored promise (the mutant of C10)
CacheAfterRejectCleared(cache) == [cache EXCEPT !.promise = NoPromise]

\* the promise chain has no catch: a rejection leaves the cache as it is
CacheAfterReject(cache) == cache

\* whether the promise the cache holds has been rejected
CachedPromiseRejected ==
    /\ mongooseCache.defined
    /\ mongooseCache.promise # NoPromise
    /\ promises[mongooseCache.promise] = "rejected"

\* connectToDatabase, from its entry to its return or to its await
ConnectToDatabase(c) ==
    /\ callers[c].pc # "awaiting"
    /\ callers[c].calls < MaxCalls
    /\ IF mongooseCache.defined /\ mongooseCache.conn # NoConn
         THEN /\ callers' = [callers EXCEPT ![c] =
                    [pc |-> "returned", promise |-> NoPromise, conn |-> mongooseCache.conn,
                     calls |-> @.calls + 1, via |-> "cache", late |-> FALSE]]
              /\ UNCHANGED <<mongooseCache, promises, connectCalls>>
         ELSE LET cache == IF ~mongooseCache.defined
                             THEN [defined |-> TRUE, conn |-> NoConn, promise |-> NoPromise]
                             ELSE mongooseCache
                  connect == NeedsConnect(cache)
                  awaited == IF connect THEN Len(promises) + 1 ELSE cache.promise
              IN  /\ mongooseCache' = [cache EXCEPT !.promise = awaited]
                  /\ promises' = IF connect THEN Append(promises, "pending") ELSE promises
                  /\ connectCalls' = IF connect THEN connectCalls + 1 ELSE connectCalls
                  /\ callers' = [callers EXCEPT ![c] =
                        [pc |-> "awaiting", promise |-> awaited, conn |-> NoConn,
                         calls |-> @.calls + 1, via |-> "promise",
                         late |-> CachedPromiseRejected]]
    /\ UNCHANGED <<slugVars, timeVars, storeVars>>

\* mongoose.connect resolves: the .then callback stores the connection
ConnectFulfilled(p) ==
    /\ promises[p] = "pending"
    /\ promises' = [promises EXCEPT ![p] = "fulfilled"]
    /\ mongooseCache' = [mongooseCache EXCEPT !.conn = Connection(p)]
    /\ UNCHANGED <<connectCalls, callers, slugVars, timeVars, storeVars>>

\* mongoose.connect rejects: the .then callback is skipped
ConnectRejected(p) ==
    /\ promises[p] = "pending"
    /\ promises' = [promises EXCEPT ![p] = "rejected"]
    /\ mongooseCache' = CacheAfterReject(mongooseCache)
    /\ UNCHANGED <<connectCalls, callers, slugVars, timeVars, storeVars>>

\* the await of the stored promise completes
Resume(c) ==
    /\ callers[c].pc = "awaiting"
    /\ promises[callers[c].promise] # "pending"
    /\ callers' = [callers EXCEPT ![c].pc =
            IF promises[callers[c].promise] = "fulfilled" THEN "returned" ELSE "failed",
                                  ![c].conn =
            IF promises[callers[c].promise] = "fulfilled"
              THEN Connection(callers[c].promise) ELSE NoConn]
    /\ UNCHANGED <<mongooseCache, promises, connectCalls, slugVars, timeVars, storeVars>>

(***************************************************************************)
(* normalizeDate (event.model.ts)                                          *)
(***************************************************************************)
IsLeap(y) == (y % 4 = 0 /\ y % 100 # 0) \/ y % 400 = 0
DaysIn(y, m) == IF m = 2 THEN (IF IsLeap(y) THEN 29 ELSE 28)
                ELSE IF m \in {4, 6, 9, 11} THEN 30 ELSE 31

(* new Date(s) for the two ECMAScript date-time forms the hook meets: the  *)
(* date-only YYYY-MM-DD, read as UTC midnight, and the full form           *)
(* YYYY-MM-DDTHH:mm:ss.sssZ that toISOString itself writes. Month 01..12   *)
(* and day 01..31, a day past the month's end rolling over into the next   *)
(* month. Any other string of the inputs used here is an Invalid Date.     *)
IsoClockValid(c) ==
    /\ Len(c) = 14
    /\ c[1] = "T" /\ c[4] = ":" /\ c[7] = ":" /\ c[10] = "." /\ c[14] = "Z"
    /\ \A i \in {2, 3, 5, 6, 8, 9, 11, 12, 13} : IsDigit(c[i])
    /\ parseInt(SubSeq(c, 2, 3)) <= 23
    /\ parseInt(SubSeq(c, 5, 6)) <= 59
    /\ parseInt(SubSeq(c, 8, 9)) <= 59

MidnightClock == <<"T","0","0",":","0","0",":","0","0",".","0","0","0","Z">>

ParseIsoDate(s) ==
    LET shape == /\ Len(s) \in {10, 24}
                 /\ \A i \in {1, 2, 3, 4, 6, 7, 9, 10} : IsDigit(s[i])
                 /\ s[5] = "-" /\ s[8] = "-"
                 /\ Len(s) = 24 => IsoClockValid(SubSeq(s, 11, 24))
    IN  IF ~shape THEN [valid |-> FALSE]
        ELSE LET y == 100 * parseInt(SubSeq(s, 1, 2)) + parseInt(SubSeq(s, 3, 4))
                 m == parseInt(SubSeq(s, 6, 7))
                 d == parseInt(SubSeq(s, 9, 10))
                 clock == IF Len(s) = 24 THEN SubSeq(s, 11, 24) ELSE MidnightClock
             IN  IF m < 1 \/ m > 12 \/ d < 1 \/ d > 31 THEN [valid |-> FALSE]
                 ELSE IF d > DaysIn(y, m)
                   THEN [valid |-> TRUE, year |-> SubSeq(s, 1, 4), month |-> m + 1,
                         day |-> d - DaysIn(y, m), clock |-> clock]
                   ELSE [valid |-> TRUE, year |-> SubSeq(s, 1, 4), month |-> m, day |-> d,
                         clock |-> clock]

\* Date.prototype.toISOString
toISOString(p) ==
    p.year \o <<"-">> \o padStart2(NumToStr(p.month)) \o <<"-">> \o padStart2(NumToStr(p.day))
      \o p.clock

normalizeDate(input) ==
    LET parsed == ParseIsoDate(input)
    IN  IF ~parsed.valid THEN Throw("Invalid date format") ELSE Ok(toISOString(parsed))

(***************************************************************************)
(* The Event schema and its pre-save hook (event.model.ts)                 *)
(***************************************************************************)
Missing == <<"undefined">>    \* undefined: the attribute was not given (no string holds this element)
EventDocIds == {"e1", "e2"}
EventPaths == {"title", "slug", "description", "overview", "date", "time", "agenda", "tags"}

\* the setter of a String path declared trim: true
TrimSetter(v) == IF v = Missing THEN Missing ELSE trim(v)

\* required: true on a String path: undefined, null and "" are rejected
RequiredString(v) == v # Missing /\ v # <<>>

\* validator: typeof v === "string" && v.trim().length > 0
NonBlank(v) == v # Missing /\ Len(trim(v)) > 0

\* validator: Array.isArray(arr) && arr.length > 0
NonEmptyArray(arr) == Len(arr) > 0

\* the validity of one path of the schema (overview stands for every path
\* declared { type: String, required: true, trim: true })
PathValid(doc, path) ==
    CASE path = "title" -> RequiredString(doc.title) /\ NonBlank(doc.title)
      [] path = "slug" -> RequiredString(doc.slug)
      [] path = "description" -> RequiredString(doc.description) /\ NonBlank(doc.description)
      [] path = "overview" -> RequiredString(doc.overview)
      [] path = "date" -> RequiredString(doc.date)
      [] path = "time" -> RequiredString(doc.time)
      [] path = "agenda" -> NonEmptyArray(doc.agenda)
      [] path = "tags" -> NonEmptyArray(doc.tags)

(* mongoose validates a document in its own pre("save") hook, which runs   *)
(* before every pre("save") hook a schema registers: all paths of a new    *)
(* document, the modified paths of a persisted one.                        *)
PathsToValidate(doc) == IF doc.isNew THEN EventPaths ELSE doc.modified

ValidationErrors(doc) == {path \in PathsToValidate(doc) : ~PathValid(doc, path)}

\* this.isModified(path)
isModified(doc, path) == path \in doc.modified

\* this.slug = slugify(this.title)
SetSlug(doc) ==
    LET slug == slugify(doc.title)
    IN  IF slug = doc.slug THEN doc
        ELSE [doc EXCEPT !.slug = slug, !.modified = @ \cup {"slug"}]

\* a hook that catches what the normalizers throw and goes on (the mutant of C5)
EventPreSaveNoThrow(doc) ==
    LET d1 == IF isModified(doc, "title") THEN SetSlug(doc) ELSE doc
        date == normalizeDate(d1.date)
        d2 == IF isModified(d1, "date") /\ date.ok THEN [d1 EXCEPT !.date = date.val] ELSE d1
        time == normalizeTime(d2.time)
        d3 == IF isModified(d2, "time") /\ time.ok THEN [d2 EXCEPT !.time = time.val] ELSE d2
    IN  [doc |-> d3, err |-> "none"]

(* eventSchema.pre("save"): the document as the hook leaves it, and the    *)
(* error it threw ("none" when it returned).                               *)
EventPreSave(doc) ==
    LET d1 == IF isModified(doc, "title") THEN SetSlug(doc) ELSE doc
        date == normalizeDate(d1.date)
        d2 == IF isModified(d1, "date") /\ date.ok THEN [d1 EXCEPT !.date = date.val] ELSE d1
        time == normalizeTime(d2.time)
        d3 == IF isModified(d2, "time") /\ time.ok THEN [d2 EXCEPT !.time = time.val] ELSE d2
    IN  IF isModified(d1, "date") /\ ~date.ok THEN [doc |-> d1, err |-> date.err]
        ELSE IF isModified(d2, "time") /\ ~time.ok THEN [doc |-> d2, err |-> time.err]
        ELSE [doc |-> d3, err |-> "none"]

(***************************************************************************)
(* Event and Booking documents saved to the store. A save runs validation  *)
(* and the pre-save hooks first; the insert or update reaches the store in *)
(* a later step, and other operations may come in between. A document is   *)
(* "unbuilt", "idle" (built, or its last save fulfilled), "saving" (hooks   *)
(* passed, store call in flight) or "failed" (its last save rejected, with *)
(* the error in result).                                                   *)
(***************************************************************************)
MyTalkSpaced == <<" ","m","y"," "," ","t","a","l","k">>
GoTitle == <<"G","o">>
Titles == {MyTalkTitle, MyTalkSpaced, GoTitle}
GivenSlug == <<"x">>
GoodDate == <<"2","0","2","6","-","0","6","-","1","0">>
BadDate == <<"n","o","t","-","a","-","d","a","t","e">>
GoodTime == <<"9",":","0","0"," ","A","M">>
LateTime == <<"2","1",":","3","0">>
BadTime == <<"2","5",":","0","0">>

ValidAttrs(t, s) ==
    [title |-> t, slug |-> s, description |-> <<"d">>, overview |-> <<"o">>,
     date |-> GoodDate, time |-> GoodTime, agenda |-> << <<"a">> >>, tags |-> << <<"t">> >>]

\* the attribute objects handed to build: EventAttrs has no slug, and an
\* object that carries one (as the sample events do) is accepted as well
EventInputs ==
    {ValidAttrs(t, s) : t \in Titles, s \in {Missing, GivenSlug}}
      \cup {[ValidAttrs(MyTalkTitle, GivenSlug) EXCEPT !.title = <<" ">>],
            [ValidAttrs(MyTalkTitle, GivenSlug) EXCEPT !.description = <<" ">>],
            [ValidAttrs(MyTalkTitle, GivenSlug) EXCEPT !.overview = Missing],
            [ValidAttrs(MyTalkTitle, GivenSlug) EXCEPT !.agenda = <<>>],
            [ValidAttrs(MyTalkTitle, GivenSlug) EXCEPT !.tags = <<>>],
            [ValidAttrs(MyTalkTitle, GivenSlug) EXCEPT !.date = BadDate],
            [ValidAttrs(MyTalkTitle, GivenSlug) EXCEPT !.time = BadTime]}

\* the assignments made to a persisted document between two saves
EventChanges ==
    {<<"title", GoTitle>>, <<"time", LateTime>>, <<"time", BadTime>>, <<"tags", <<>> >>}

UnbuiltEvent ==
    [pc |-> "unbuilt", isNew |-> TRUE, result |-> "none", modified |-> {},
     title |-> Missing, slug |-> Missing, description |-> Missing, overview |-> Missing,
     date |-> Missing, time |-> Missing, agenda |-> <<>>, tags |-> <<>>]

\* the fields of a document that the store holds
Stored(doc) == [path \in EventPaths |-> doc[path]]

\* eventSchema.statics.build: new this(attrs), setters applied
EventBuild(d, attrs) ==
    /\ eventDocs[d].pc = "unbuilt"
    /\ eventDocs' = [eventDocs EXCEPT ![d] =
          [pc |-> "idle", isNew |-> TRUE, result |-> "none",
           modified |-> {path \in EventPaths :
                           path \in {"agenda", "tags"} \/ attrs[path] # Missing},
           title |-> TrimSetter(attrs.title), slug |-> attrs.slug,
           description |-> attrs.description, overview |-> TrimSetter(attrs.overview),
           date |-> attrs.date, time |-> attrs.time,
           agenda |-> attrs.agenda, tags |-> attrs.tags]]
    /\ UNCHANGED <<events, bookings, bookingDocs, deleted, slugVars, timeVars, connVars>>

\* doc[path] = value on a persisted document
EventSet(d, path, value) ==
    /\ eventDocs[d].pc \in {"idle", "failed"}
    /\ ~eventDocs[d].isNew
    /\ LET v == IF path = "title" THEN TrimSetter(value) ELSE value
       IN  /\ v # eventDocs[d][path]
           /\ eventDocs' = [eventDocs EXCEPT ![d] =
                 [[eventDocs[d] EXCEPT !.modified = @ \cup {path}, !.pc = "idle"]
                    EXCEPT ![path] = v]]
    /\ UNCHANGED <<events, bookings, bookingDocs, deleted, slugVars, timeVars, connVars>>

\* doc.save(), up to the store call: validation, then eventSchema.pre("save")
EventSave(d) ==
    /\ eventDocs[d].pc \in {"idle", "failed"}
    /\ LET doc == eventDocs[d]
           hook == EventPreSave(doc)
       IN  eventDocs' = [eventDocs EXCEPT ![d] =
              IF ValidationErrors(doc) # {}
                THEN [doc EXCEPT !.pc = "failed", !.result = "ValidationError"]
              ELSE IF hook.err # "none"
                THEN [hook.doc EXCEPT !.pc = "failed", !.result = "FormatError"]
              ELSE [hook.doc EXCEPT !.pc = "saving"]]
    /\ UNCHANGED <<events, bookings, bookingDocs, deleted, slugVars, timeVars, connVars>>

\* eventSchema.index({ slug: 1 }, { unique: true }): another record holds the slug
SlugTaken(d, slug) == \E other \in DOMAIN events \ {d} : events[other].slug = slug

\* the store call of doc.save(): insertOne for a new document, updateOne of the
\* modified paths for a persisted one
EventPersist(d) ==
    /\ eventDocs[d].pc = "saving"
    /\ LET doc == eventDocs[d]
       IN  IF ~doc.isNew /\ d \notin DOMAIN events
             THEN /\ eventDocs' = [eventDocs EXCEPT ![d].pc = "failed",
                                                    ![d].result = "DocumentNotFoundError"]
                  /\ UNCHANGED events
           ELSE IF (doc.isNew \/ "slug" \in doc.modified) /\ SlugTaken(d, doc.slug)
             THEN /\ eventDocs' = [eventDocs EXCEPT ![d].pc = "failed",
                                                    ![d].result = "StorageConflictError"]
                  /\ UNCHANGED events
           ELSE /\ events' = [id \in DOMAIN events \cup {d} |->
                     IF id # d THEN events[id]
                     ELSE IF doc.isNew THEN Stored(doc)
                     ELSE [path \in EventPaths |->
                             IF path \in doc.modified THEN doc[path] ELSE events[d][path]]]
                /\ eventDocs' = [eventDocs EXCEPT ![d].pc = "idle", ![d].result = "ok",
                                                  ![d].isNew = FALSE, ![d].modified = {}]
    /\ UNCHANGED <<bookings, bookingDocs, deleted, slugVars, timeVars, connVars>>

\* Event.deleteOne({ _id: d }), issued by any other request
EventDelete(d) ==
    /\ d \in DOMAIN events
    /\ events' = [id \in DOMAIN events \ {d} |-> events[id]]
    /\ deleted' = deleted \cup {d}
    /\ UNCHANGED <<bookings, eventDocs, bookingDocs, slugVars, timeVars, connVars>>

(***************************************************************************)
(* The Booking schema and its pre-save hook (database/booking.model.ts)    *)
(***************************************************************************)
BookingDocIds == {"b1", "b2"}
NoEventId == "none"    \* eventId: undefined
GoodEmail == <<" ","A","@","b",".","c"," ">>
BadEmail == <<"a","b",".","c">>
BookingInputs == [eventId : EventDocIds \cup {NoEventId}, email : {GoodEmail, BadEmail}]

\* EMAIL_REGEX = /^[^\s@]+@[^\s@]+\.[^\s@]+$/ .test(v)
EmailRegexTest(v) ==
    \E at \in 1..Len(v), dot \in 1..Len(v) :
        /\ v[at] = "@" /\ v[dot] = "."
        /\ 1 < at /\ at + 1 < dot /\ dot < Len(v)
        /\ \A i \in 1..Len(v) : ~IsSpace(v[i]) /\ (v[i] = "@" => i = at)

\* the setters of email: trim: true, lowercase: true
EmailSetter(v) == toLowerCase(trim(v))

UnbuiltBooking ==
    [pc |-> "unbuilt", isNew |-> TRUE, result |-> "none",
     eventId |-> NoEventId, email |-> <<>>, raced |-> FALSE]

\* the paths of a Booking that fail validation: all paths of a new document are
\* validated, and a persisted one is never assigned to here
BookingValidationErrors(doc) ==
    IF ~doc.isNew THEN {}
    ELSE {path \in {"eventId", "email"} :
            \/ path = "eventId" /\ doc.eventId = NoEventId
            \/ path = "email" /\ ~(RequiredString(doc.email) /\ EmailRegexTest(doc.email))}

\* an existence query that forgets its filter (the mutant of C8)
EventExistsAny(id) == DOMAIN events # {}

\* Event.exists({ _id: this.eventId })
EventExists(id) == id \in DOMAIN events

\* a hook that checks only new documents (the mutant of C9)
HookRunsOnlyWhenNew(doc) == doc.isNew

\* bookingSchema.pre("save") is registered without a condition: it runs on every save
HookRuns(doc) == TRUE

\* a hook that never throws (the mutant of C1)
BookingPreSaveSilent(doc) == "none"

\* bookingSchema.pre("save"): the error it throws ("none" when it returns)
BookingPreSave(doc) ==
    IF HookRuns(doc) /\ ~EventExists(doc.eventId)
      THEN "Referenced event does not exist"
      ELSE "none"

\* bookingSchema.statics.build: new this(attrs), setters applied
BookingBuild(b, attrs) ==
    /\ bookingDocs[b].pc = "unbuilt"
    /\ bookingDocs' = [bookingDocs EXCEPT ![b] =
          [pc |-> "idle", isNew |-> TRUE, result |-> "none",
           eventId |-> attrs.eventId, email |-> EmailSetter(attrs.email), raced |-> FALSE]]
    /\ UNCHANGED <<events, bookings, eventDocs, deleted, slugVars, timeVars, connVars>>

\* doc.save(), up to the store call: validation, then bookingSchema.pre("save")
\* with its existence query
BookingSave(b) ==
    /\ bookingDocs[b].pc \in {"idle", "failed"}
    /\ LET doc == bookingDocs[b]
       IN  bookingDocs' = [bookingDocs EXCEPT ![b] =
              IF BookingValidationErrors(doc) # {}
                THEN [doc EXCEPT !.pc = "failed", !.result = "ValidationError"]
              ELSE IF BookingPreSave(doc) # "none"
                THEN [doc EXCEPT !.pc = "failed", !.result = "ReferentialIntegrityError"]
              ELSE [doc EXCEPT !.pc = "saving"]]
    /\ UNCHANGED <<events, bookings, eventDocs, deleted, slugVars, timeVars, connVars>>

\* the store call of doc.save(): insertOne for a new document; a persisted one
\* has no modified path and is only looked up
BookingPersist(b) ==
    /\ bookingDocs[b].pc = "saving"
    /\ LET doc == bookingDocs[b]
       IN  /\ bookings' = IF doc.isNew
                 THEN [id \in DOMAIN bookings \cup {b} |->
                         IF id = b THEN [eventId |-> doc.eventId, email |-> doc.email]
                         ELSE bookings[id]]
                 ELSE bookings
           /\ bookingDocs' = [bookingDocs EXCEPT ![b].pc = "idle", ![b].result = "ok",
                 ![b].isNew = FALSE,
                 ![b].raced = doc.isNew /\ doc.eventId \notin DOMAIN events]
    /\ UNCHANGED <<events, eventDocs, deleted, slugVars, timeVars, connVars>>

StoreIdle ==
    /\ events = <<>>
    /\ bookings = <<>>
    /\ eventDocs = [d \in EventDocIds |-> UnbuiltEvent]
    /\ bookingDocs = [b \in BookingDocIds |-> UnbuiltBooking]
    /\ deleted = {}

(***************************************************************************)
(* The specifications                                                      *)
(***************************************************************************)
Init == SlugIdle /\ TimeIdle /\ ConnIdle /\ StoreIdle

\* the attribute objects of the Events that Bookings refer to
BookedEventInputs == {ValidAttrs(MyTalkTitle, GivenSlug), ValidAttrs(GoTitle, GivenSlug)}

\* Bookings saved while Events are created and deleted
Next ==
    \/ \E d \in EventDocIds, attrs \in BookedEventInputs : EventBuild(d, attrs)
    \/ \E d \in EventDocIds : EventSave(d)
    \/ \E d \in EventDocIds : EventPersist(d)
    \/ \E d \in EventDocIds : EventDelete(d)
    \/ \E b \in BookingDocIds, attrs \in BookingInputs : BookingBuild(b, attrs)
    \/ \E b \in BookingDocIds : BookingSave(b)
    \/ \E b \in BookingDocIds : BookingPersist(b)

Spec == Init /\ [][Next]_vars

\* Events created from every attribute object, changed and saved again
NextEvent ==
    \/ \E d \in EventDocIds, attrs \in EventInputs : EventBuild(d, attrs)
    \/ \E d \in EventDocIds, change \in EventChanges : EventSet(d, change[1], change[2])
    \/ \E d \in EventDocIds : EventSave(d)
    \/ \E d \in EventDocIds : EventPersist(d)

SpecEvent == Init /\ [][NextEvent]_vars

InitSlug == slugInput \in SlugInputs /\ slugResult = NotRun /\ TimeIdle /\ ConnIdle /\ StoreIdle
NextSlug == SlugifyCall
SpecSlug == InitSlug /\ [][NextSlug]_vars

InitTime == timeParts \in TimeInputs /\ timeResult = NotRun /\ SlugIdle /\ ConnIdle /\ StoreIdle
NextTime == NormalizeTimeCall
SpecTime == InitTime /\ [][NextTime]_vars

NextConn ==
    \/ \E c \in Callers : ConnectToDatabase(c)
    \/ \E p \in DOMAIN promises : ConnectFulfilled(p)
    \/ \E p \in DOMAIN promises : ConnectRejected(p)
    \/ \E c \in Callers : Resume(c)
SpecConn == Init /\ [][NextConn]_vars

(***************************************************************************)
(* The claims                                                              *)
(***************************************************************************)
TwoDigits(n) == <<Digits[(n \div 10) + 1], Digits[(n % 10) + 1]>>
Am == <<"a","m">>
Pm == <<"p","m">>
SavedEmail == <<"a","@","b",".","c">>
NormalTime == <<"0","9",":","0","0">>

\* the save of Booking b begins and ends or reaches the store call in this step
BookingSaveStep(b) ==
    /\ bookingDocs[b].pc \in {"idle", "failed"}
    /\ bookingDocs'[b].pc \in {"saving", "failed"}
    /\ bookingDocs'[b] # bookingDocs[b]

\* the fields of Booking document doc pass the schema's validators
BookingFieldsValid(doc) == doc.eventId # NoEventId /\ doc.email = SavedEmail

(* C1: a save of a Booking whose eventId identifies no Event in the store  *)
(* ends rejected in that very step, before any store call, and leaves the  *)
(* stored Bookings as they were; the error is the referential-integrity    *)
(* error whenever the Booking's own fields are valid (invalid fields are   *)
(* reported first, as a validation error).                                 *)
C1_MissingEventAbortsSave ==
    [][\A b \in BookingDocIds :
         (BookingSaveStep(b) /\ bookingDocs[b].eventId \notin DOMAIN events)
           => /\ bookingDocs'[b].pc = "failed"
              /\ bookingDocs'[b].result \in {"ReferentialIntegrityError", "ValidationError"}
              /\ BookingFieldsValid(bookingDocs[b])
                   => bookingDocs'[b].result = "ReferentialIntegrityError"
              /\ bookings' = bookings]_vars

\* a new Booking was rejected for its missing Event while another Booking is stored
C1_Witness ==
    \E b \in BookingDocIds :
        /\ bookingDocs[b].pc = "failed"
        /\ bookingDocs[b].isNew
        /\ bookingDocs[b].result = "ReferentialIntegrityError"
        /\ bookingDocs[b].eventId \notin DOMAIN events
        /\ b \notin DOMAIN bookings
        /\ DOMAIN bookings # {}

\* every attribute of the in-memory Event document doc that EventAttrs names is valid
ValidEventAttributes(doc) ==
    /\ doc.pc # "unbuilt"
    /\ doc.title \notin {Missing, <<>>}
    /\ doc.description \notin {Missing, <<>>, <<" ">>}
    /\ doc.overview \notin {Missing, <<>>}
    /\ doc.agenda # <<>> /\ doc.tags # <<>>
    /\ doc.date # BadDate /\ doc.time # BadTime

\* the last save of Event document d has ended
SaveEnded(d) == eventDocs[d].pc \in {"idle", "failed"} /\ eventDocs[d].result # "none"

(* C2: an Event built from valid attributes and saved is persisted (unless *)
(* another Event holds its slug) and its stored slug is slugify of its     *)
(* stored title, after any sequence of saves.                              *)
C2_CreationPersistsSlug ==
    \A d \in EventDocIds :
        (/\ ValidEventAttributes(eventDocs[d])
         /\ SaveEnded(d)
         /\ eventDocs[d].result # "StorageConflictError")
          => /\ d \in DOMAIN events
             /\ events[d].slug = slugify(events[d].title)

(* C3: no two stored Events share a slug, and of two Events created from   *)
(* valid attributes whose titles slugify to the same value, once both      *)
(* saves have ended, exactly one is persisted and the other was rejected   *)
(* with the store's conflict error.                                        *)
C3_ExactlyOnePersisted ==
    /\ \A d1, d2 \in DOMAIN events : d1 # d2 => events[d1].slug # events[d2].slug
    /\ \A d1, d2 \in EventDocIds :
        (/\ d1 # d2
         /\ ValidEventAttributes(eventDocs[d1]) /\ ValidEventAttributes(eventDocs[d2])
         /\ SaveEnded(d1) /\ SaveEnded(d2)
         /\ eventDocs[d1].isNew \/ eventDocs[d1].modified = {}
         /\ eventDocs[d2].isNew \/ eventDocs[d2].modified = {}
         /\ slugify(eventDocs[d1].title) = slugify(eventDocs[d2].title))
          => \/ /\ d1 \in DOMAIN events /\ d2 \notin DOMAIN events
                /\ eventDocs[d2].result = "StorageConflictError"
             \/ /\ d2 \in DOMAIN events /\ d1 \notin DOMAIN events
                /\ eventDocs[d1].result = "StorageConflictError"

(* C4: mongoose.connect is invoked at most once, every call that is        *)
(* waiting awaits the one promise the cache holds, and all calls that      *)
(* returned hold the same connection, the one the cache holds.             *)
C4_IdempotentAcquire ==
    /\ connectCalls <= 1
    /\ \A c \in Callers :
          callers[c].pc = "awaiting" => callers[c].promise = mongooseCache.promise
    /\ \A c \in Callers :
          callers[c].pc = "returned"
            => callers[c].conn # NoConn /\ callers[c].conn = mongooseCache.conn

\* two calls overlapped on the pending promise and returned, a third found the connection cached
C4_Witness ==
    \E c1, c2, c3 \in Callers :
        /\ c1 # c2
        /\ callers[c1].pc = "returned" /\ callers[c1].via = "promise"
        /\ callers[c2].pc = "returned" /\ callers[c2].via = "promise"
        /\ callers[c3].pc = "returned" /\ callers[c3].via = "cache"

\* the save of Event d begins and ends or reaches the store call in this step
EventSaveStep(d) ==
    /\ eventDocs[d].pc \in {"idle", "failed"}
    /\ eventDocs'[d].pc \in {"saving", "failed"}
    /\ eventDocs'[d] # eventDocs[d]

\* doc has a field the schema rejects: any field of a new document, a changed one otherwise
FailsValidation(doc) ==
    \/ /\ doc.isNew
       /\ \/ doc.title \in {Missing, <<>>}
          \/ doc.slug \in {Missing, <<>>}
          \/ doc.description \in {Missing, <<>>, <<" ">>}
          \/ doc.overview \in {Missing, <<>>}
          \/ doc.agenda = <<>>
          \/ doc.tags = <<>>
    \/ ~doc.isNew /\ "tags" \in doc.modified /\ doc.tags = <<>>

\* doc has a new or changed date or time that cannot be parsed
FailsNormalization(doc) ==
    \/ "date" \in doc.modified /\ doc.date = BadDate
    \/ "time" \in doc.modified /\ doc.time = BadTime

(* C5: a save of an Event that has an invalid field, or a date or time     *)
(* that cannot be normalized, ends rejected in that very step with a       *)
(* validation or format error, never reaches the store call, and leaves    *)
(* the store as it was.                                                    *)
C5_NoPartialWrites ==
    [][\A d \in EventDocIds :
         (EventSaveStep(d) /\ (FailsValidation(eventDocs[d]) \/ FailsNormalization(eventDocs[d])))
           => /\ eventDocs'[d].pc = "failed"
              /\ eventDocs'[d].result \in {"ValidationError", "FormatError"}
              /\ events' = events
              /\ bookings' = bookings]_vars

\* an update with an unparseable time was rejected and the stored record kept its time,
\* and a creation with no tags was rejected and stored nothing
C5_Witness ==
    \E d1, d2 \in EventDocIds :
        /\ eventDocs[d1].pc = "failed" /\ eventDocs[d1].result = "FormatError"
        /\ ~eventDocs[d1].isNew /\ eventDocs[d1].time = BadTime
        /\ d1 \in DOMAIN events /\ events[d1].time = NormalTime
        /\ eventDocs[d2].pc = "failed" /\ eventDocs[d2].result = "ValidationError"
        /\ eventDocs[d2].tags = <<>> /\ d2 \notin DOMAIN events

\* the time string is H:mm or HH:mm, hour 0..23 and minute 00..59, nothing after it
Is24HourShape(p) ==
    /\ p.sec = <<>> /\ p.period = <<>>
    /\ parseInt(p.hour) <= 23
    /\ Len(p.min) = 2 /\ parseInt(p.min) <= 59

\* the time string is h:mm AM or h:mm PM in any letter case, h in 1..12
Is12HourShape(p) ==
    /\ p.sec = <<>> /\ toLowerCase(p.period) \in {Am, Pm}
    /\ parseInt(p.hour) \in 1..12
    /\ Len(p.min) = 2 /\ parseInt(p.min) <= 59

\* the hour of the day that h AM or h PM names
HourOfDay(h, period) == IF toLowerCase(period) = Am THEN h % 12 ELSE (h % 12) + 12

(* C6: normalizeTime returns HH:mm with the hour zero-padded for every     *)
(* H:mm or HH:mm of a day, returns the 24-hour equivalent for every h:mm   *)
(* AM or PM with h in 1..12 (12 AM is hour 00, 12 PM is hour 12), and      *)
(* throws the format error for 13:00 AM.                                   *)
C6_NormalizeTime ==
    timeResult # NotRun =>
        /\ Is24HourShape(timeParts)
             => timeResult = Ok(TwoDigits(parseInt(timeParts.hour)) \o <<":">> \o timeParts.min)
        /\ Is12HourShape(timeParts)
             => timeResult = Ok(TwoDigits(HourOfDay(parseInt(timeParts.hour), timeParts.period))
                                  \o <<":">> \o timeParts.min)
        /\ (/\ timeParts.hour = <<"1","3">> /\ timeParts.min = <<"0","0">>
            /\ timeParts.sec = <<>> /\ toLowerCase(timeParts.period) = Am)
             => timeResult = Throw("Invalid time format")

\* "12:00 AM" gave "00:00"
C6_Witness ==
    /\ timeParts.hour = <<"1","2">> /\ timeParts.min = <<"0","0">> /\ timeParts.sec = <<>>
    /\ timeParts.sep = <<" ">> /\ timeParts.period = <<"A","M">>
    /\ timeResult = Ok(<<"0","0",":","0","0">>)

SlugChars == Range(LowerLetters) \cup Range(Digits) \cup {"-"}
HelloWorldSlug == <<"h","e","l","l","o","-","w","o","r","l","d">>

(* C7: the output of slugify holds only characters of [a-z0-9-] and no two *)
(* hyphens in a row, at its ends or anywhere else, and "Hello   World!!"   *)
(* gives "hello-world".                                                    *)
C7_SlugShape ==
    slugResult.ok =>
        /\ \A i \in DOMAIN slugResult.val : slugResult.val[i] \in SlugChars
        /\ \A i \in 1..(Len(slugResult.val) - 1) :
              ~(slugResult.val[i] = "-" /\ slugResult.val[i + 1] = "-")
        /\ slugInput = HelloWorldTitle => slugResult.val = HelloWorldSlug

\* a title with a hyphen next to a blank was slugified
C7_Witness ==
    /\ slugResult.ok
    /\ \E i \in 1..(Len(slugInput) - 2) :
          /\ IsLower(LowerChar(slugInput[i]))
          /\ slugInput[i + 1] = "-" /\ slugInput[i + 2] = " "
          /\ Len(slugInput) > i + 2 /\ IsLower(LowerChar(slugInput[i + 3]))

(* C8: the existence check and the insert of a Booking are two steps. A    *)
(* Booking reaches the store only after an Event with its eventId was      *)
(* found, so a stored Booking refers to an Event that is in the store or   *)
(* was deleted from it; a Booking whose Event was gone when the insert     *)
(* ran (the witness) lost its Event to a deletion in between.              *)
C8_ReadThenWrite ==
    /\ \A b \in DOMAIN bookings : bookings[b].eventId \in DOMAIN events \cup deleted
    /\ \A b \in BookingDocIds :
          bookingDocs[b].pc = "saving" => bookingDocs[b].eventId \in DOMAIN events \cup deleted
    /\ \A b \in BookingDocIds : bookingDocs[b].raced => bookingDocs[b].eventId \in deleted

\* a Booking was inserted after its Event was deleted, and refers to no stored Event
C8_Witness ==
    \E b \in DOMAIN bookings :
        /\ bookingDocs[b].raced
        /\ bookings[b].eventId \notin DOMAIN events

(* C9, as claimed: a persisted Booking that is saved again is never        *)
(* rejected with the referential-integrity error.                          *)
C9_NoCheckOnResave ==
    \A b \in BookingDocIds :
        ~bookingDocs[b].isNew => bookingDocs[b].result # "ReferentialIntegrityError"

(* C9, amended: the existence check runs on every save. A persisted        *)
(* Booking that is saved again is rejected with the referential-integrity  *)
(* error when no Event with its eventId is in the store, and goes on to    *)
(* the store call when there is one.                                       *)
C9_CheckOnEverySave ==
    [][\A b \in BookingDocIds :
         (BookingSaveStep(b) /\ ~bookingDocs[b].isNew)
           => IF bookingDocs[b].eventId \in DOMAIN events
                THEN bookingDocs'[b].pc = "saving"
                ELSE /\ bookingDocs'[b].pc = "failed"
                     /\ bookingDocs'[b].result = "ReferentialIntegrityError"]_vars

\* a stored Booking was saved again after its Event was deleted, and was rejected
C9_Witness ==
    \E b \in DOMAIN bookings :
        /\ ~bookingDocs[b].isNew
        /\ bookingDocs[b].pc = "failed"
        /\ bookingDocs[b].result = "ReferentialIntegrityError"
        /\ bookings[b].eventId \in deleted

\* some promise that connect produced has been rejected
SomeConnectRejected == \E p \in DOMAIN promises : promises[p] = "rejected"

(* C10: once the first connect has been rejected, the cache holds that     *)
(* rejected promise and no connection, connect has been invoked exactly    *)
(* once, every waiting call awaits that promise, and no call has returned  *)
(* a connection.                                                           *)
C10_RejectionIsPermanent ==
    SomeConnectRejected =>
        /\ CachedPromiseRejected
        /\ mongooseCache.conn = NoConn
        /\ connectCalls = 1
        /\ \A c \in Callers :
              /\ callers[c].pc # "returned"
              /\ callers[c].pc = "awaiting" => callers[c].promise = mongooseCache.promise

\* a call made after the rejection awaited the rejected promise and failed
C10_Witness ==
    /\ CachedPromiseRejected
    /\ connectCalls = 1
    /\ \E c \in Callers : callers[c].late /\ callers[c].pc = "failed"

=============================================================================
